---------------------------- MODULE Spec2Model ----------------------------
(***************************************************************************)
(* Dense 2D / 3D arrays (src/src/array2d.rs, src/src/array3d.rs).          *)
(*                                                                         *)
(* An array is a record of its dimensions and its flat backing vector.     *)
(* The backing Vec<T> is a TLA+ sequence: the cell at Rust index i is      *)
(* data[i + 1].  A call that panics (a failed assert!, a slice or index    *)
(* out of range) is a result with ok = FALSE; what the call had written    *)
(* before the panic stays written.                                         *)
(*                                                                         *)
(* usize arithmetic is modelled on the naturals: every dimension and       *)
(* coordinate of the model is far below usize::MAX, so no sum or product   *)
(* of the code overflows here.                                             *)
(*                                                                         *)
(* A behaviour is one client of the library: it owns an Array2D or an      *)
(* Array3D (Init, the state after construction and population), and makes  *)
(* one call on it, or one traversal, or a sub followed by the copy of the  *)
(* result into a second array.  `orig` and `last` are history variables.   *)
(***************************************************************************)
EXTENDS Integers, Sequences, FiniteSets

VARIABLES
    kind,   \* "Array2D" or "Array3D": the type of the array the client owns
    a,      \* the Array2D            (width, height, data)
    v,      \* the Array3D            (width, height, depth, data)
    ret,    \* the Array2D returned by the last sub
    a2,     \* the second Array2D, the receiver of the copy after a sub
    it,     \* the live Iter / IterMut: its coord, what it yielded so far
    last,   \* the last call: its name, arguments and outcome
    orig,   \* the arrays as they were before the call
    pc      \* "ready", "subbed", "iter", "done"

vars == <<kind, a, v, ret, a2, it, last, orig, pc>>

\* Largest width, height and depth of an array, and largest coordinate
\* component and region extent passed to a call.
MaxDim == 2

\* How many times next() is called again after it returned None.
MaxNones == 1

\* The element values T the client fills with and writes.
Val == {0, 1}

Dim == 0..MaxDim

Coord2D == [x : Dim, y : Dim]

Coord3D == [x : Dim, y : Dim, z : Dim]

Coord2D_new(x, y) == [x |-> x, y |-> y]

Coord3D_new(x, y, z) == [x |-> x, y |-> y, z |-> z]

----------------------------------------------------------------------------
(* Vec<T> and slices *)

\* vec[index]: panics unless index < len
VecIndexOk(vec, index) == index < Len(vec)

\* &vec[begin..end]: panics unless begin <= end and end <= len
SliceOk(vec, begin, end) == begin <= end /\ end <= Len(vec)

Slice(vec, begin, end) == SubSeq(vec, begin + 1, end)

\* dst.clone_from_slice(src) on dst = &mut vec[begin..end], Len(src) = end - begin
CloneFromSlice(vec, begin, end, src) ==
    [i \in 1..Len(vec) |->
        IF begin < i /\ i <= end THEN src[i - begin] ELSE vec[i]]

\* data.resize(n, default) on an empty Vec
Resize(n, default) == [i \in 1..n |-> default]

----------------------------------------------------------------------------
(* Array2D *)

new_with_2d(width, height, default) ==
    [width |-> width, height |-> height, data |-> Resize(width * height, default)]

\* coord_is_valid without the check of x.
coord_is_valid_2d_NoX(this, coord) ==
    coord.y < this.height

coord_is_valid_2d(this, coord) ==
    coord.x < this.width /\ coord.y < this.height

\* coord_index with the height where the width belongs.
coord_index_2d_ByHeight(this, coord) ==
    coord.x + this.height * coord.y

coord_index_2d(this, coord) ==
    coord.x + this.width * coord.y

\* at: the assert, then the indexed read (index names the cell the returned
\* reference points at)
at_2d(this, coord) ==
    IF ~coord_is_valid_2d(this, coord) THEN [ok |-> FALSE, index |-> 0, val |-> 0]
    ELSE LET index == coord_index_2d(this, coord) IN
         IF VecIndexOk(this.data, index)
         THEN [ok |-> TRUE, index |-> index, val |-> this.data[index + 1]]
         ELSE [ok |-> FALSE, index |-> 0, val |-> 0]

\* at_mut: the assert, then the index of the cell the returned reference names
at_mut_2d(this, coord) ==
    IF ~coord_is_valid_2d(this, coord) THEN [ok |-> FALSE, index |-> 0]
    ELSE LET index == coord_index_2d(this, coord) IN
         IF VecIndexOk(this.data, index)
         THEN [ok |-> TRUE, index |-> index]
         ELSE [ok |-> FALSE, index |-> 0]

\* *reference = value
WriteRef(this, index, value) == [this EXCEPT !.data[index + 1] = value]

set_2d(this, coord, value) ==
    LET r == at_mut_2d(this, coord) IN
    IF r.ok THEN [ok |-> TRUE, this |-> WriteRef(this, r.index, value)]
    ELSE [ok |-> FALSE, this |-> this]

\* data_mut()[index] = value
data_mut_write(this, index, value) ==
    IF VecIndexOk(this.data, index)
    THEN [ok |-> TRUE, this |-> WriteRef(this, index, value)]
    ELSE [ok |-> FALSE, this |-> this]

\* The three asserts of sub.
SubAsserts(this, coord, width, height) ==
    /\ width > 0
    /\ height > 0
    /\ coord_is_valid_2d(this, coord)

\* The row of sub's loop without coord.y.
SubRow_NoY(this, coord, width, i) ==
    LET src_begin == this.width * i + coord.x
        src_end   == src_begin + width
    IN  IF SliceOk(this.data, src_begin, src_end)
        THEN [ok |-> TRUE, row |-> Slice(this.data, src_begin, src_end)]
        ELSE [ok |-> FALSE, row |-> <<>>]

\* One row of sub's loop: the slice of the source that row i copies.
SubRow(this, coord, width, i) ==
    LET src_begin == this.width * (coord.y + i) + coord.x
        src_end   == src_begin + width
    IN  IF SliceOk(this.data, src_begin, src_end)
        THEN [ok |-> TRUE, row |-> Slice(this.data, src_begin, src_end)]
        ELSE [ok |-> FALSE, row |-> <<>>]

\* sub's loop stopping one row early.
RECURSIVE SubLoop_OffByOne(_, _, _, _, _, _)
SubLoop_OffByOne(this, coord, width, height, i, data) ==
    IF i + 1 >= height THEN [ok |-> TRUE, data |-> data]
    ELSE LET r == SubRow(this, coord, width, i) IN
         IF r.ok
         THEN SubLoop_OffByOne(this, coord, width, height, i + 1, data \o r.row)
         ELSE [ok |-> FALSE, data |-> data]

\* sub's loop from row i on, `data` being what the rows before i appended.
RECURSIVE SubLoop(_, _, _, _, _, _)
SubLoop(this, coord, width, height, i, data) ==
    IF i >= height THEN [ok |-> TRUE, data |-> data]
    ELSE LET r == SubRow(this, coord, width, i) IN
         IF r.ok THEN SubLoop(this, coord, width, height, i + 1, data \o r.row)
         ELSE [ok |-> FALSE, data |-> data]

sub(this, coord, width, height) ==
    IF ~SubAsserts(this, coord, width, height)
    THEN [ok |-> FALSE, ret |-> new_with_2d(0, 0, 0)]
    ELSE LET r == SubLoop(this, coord, width, height, 0, <<>>) IN
         IF r.ok
         THEN [ok |-> TRUE,
               ret |-> [width |-> width, height |-> height, data |-> r.data]]
         ELSE [ok |-> FALSE, ret |-> new_with_2d(0, 0, 0)]

\* copy with the assert on the height alone.
CopyAsserts_NoWidth(this, source, dest) ==
    dest.y + source.height <= this.height

\* The two asserts of copy.
CopyAsserts(this, source, dest) ==
    /\ dest.x + source.width <= this.width
    /\ dest.y + source.height <= this.height

\* One row of copy's loop, applied to the receiver.
CopyRow(this, source, dest, i) ==
    LET dst_begin == this.width * (dest.y + i) + dest.x
        dst_end   == dst_begin + source.width
        src_begin == source.width * i
        src_end   == src_begin + source.width
    IN  IF /\ SliceOk(source.data, src_begin, src_end)
           /\ SliceOk(this.data, dst_begin, dst_end)
        THEN [ok |-> TRUE,
              this |-> [this EXCEPT !.data =
                          CloneFromSlice(this.data, dst_begin, dst_end,
                                         Slice(source.data, src_begin, src_end))]]
        ELSE [ok |-> FALSE, this |-> this]

RECURSIVE CopyLoop(_, _, _, _)
CopyLoop(this, source, dest, i) ==
    IF i >= source.height THEN [ok |-> TRUE, this |-> this]
    ELSE LET r == CopyRow(this, source, dest, i) IN
         IF r.ok THEN CopyLoop(r.this, source, dest, i + 1)
         ELSE [ok |-> FALSE, this |-> r.this]

copy(this, source, dest) ==
    IF ~CopyAsserts(this, source, dest) THEN [ok |-> FALSE, this |-> this]
    ELSE CopyLoop(this, source, dest, 0)

----------------------------------------------------------------------------
(* Array3D *)

new_with_3d(width, height, depth, default) ==
    [width |-> width, height |-> height, depth |-> depth,
     data |-> Resize(width * height * depth, default)]

coord_is_valid_3d(this, coord) ==
    coord.x < this.width /\ coord.y < this.height /\ coord.z < this.depth

\* coord_index with the plane stride short of the height.
coord_index_3d_NoHeight(this, coord) ==
    coord.x + this.width * coord.y + this.width * coord.z

coord_index_3d(this, coord) ==
    coord.x + this.width * coord.y + this.width * this.height * coord.z

at_3d(this, coord) ==
    IF ~coord_is_valid_3d(this, coord) THEN [ok |-> FALSE, index |-> 0, val |-> 0]
    ELSE LET index == coord_index_3d(this, coord) IN
         IF VecIndexOk(this.data, index)
         THEN [ok |-> TRUE, index |-> index, val |-> this.data[index + 1]]
         ELSE [ok |-> FALSE, index |-> 0, val |-> 0]

at_mut_3d(this, coord) ==
    IF ~coord_is_valid_3d(this, coord) THEN [ok |-> FALSE, index |-> 0]
    ELSE LET index == coord_index_3d(this, coord) IN
         IF VecIndexOk(this.data, index)
         THEN [ok |-> TRUE, index |-> index]
         ELSE [ok |-> FALSE, index |-> 0]

set_3d(this, coord, value) ==
    LET r == at_mut_3d(this, coord) IN
    IF r.ok THEN [ok |-> TRUE, this |-> WriteRef(this, r.index, value)]
    ELSE [ok |-> FALSE, this |-> this]

\* The two asserts of copy_2d.
Copy2dAsserts(this, source, dest) ==
    /\ dest.x + source.width <= this.width
    /\ dest.y + source.height <= this.height

\* The row of copy_2d's loop with the destination of Array2D::copy.
Copy2dRow_From2D(this, source, dest, i) ==
    LET dst_begin == this.width * (dest.y + i) + dest.x
        dst_end   == dst_begin + source.width
        src_begin == source.width * i
        src_end   == src_begin + source.width
    IN  IF /\ SliceOk(source.data, src_begin, src_end)
           /\ SliceOk(this.data, dst_begin, dst_end)
        THEN [ok |-> TRUE,
              this |-> [this EXCEPT !.data =
                          CloneFromSlice(this.data, dst_begin, dst_end,
                                         Slice(source.data, src_begin, src_end))]]
        ELSE [ok |-> FALSE, this |-> this]

\* One row of copy_2d's loop, applied to the receiver.
Copy2dRow(this, source, dest, i) ==
    LET dst       == Coord3D_new(dest.x, dest.y + i, dest.z)
        dst_begin == coord_index_3d(this, dst)
        dst_end   == dst_begin + source.width
        src_begin == source.width * i
        src_end   == src_begin + source.width
    IN  IF /\ SliceOk(source.data, src_begin, src_end)
           /\ SliceOk(this.data, dst_begin, dst_end)
        THEN [ok |-> TRUE,
              this |-> [this EXCEPT !.data =
                          CloneFromSlice(this.data, dst_begin, dst_end,
                                         Slice(source.data, src_begin, src_end))]]
        ELSE [ok |-> FALSE, this |-> this]

RECURSIVE Copy2dLoop(_, _, _, _)
Copy2dLoop(this, source, dest, i) ==
    IF i >= source.height THEN [ok |-> TRUE, this |-> this]
    ELSE LET r == Copy2dRow(this, source, dest, i) IN
         IF r.ok THEN Copy2dLoop(r.this, source, dest, i + 1)
         ELSE [ok |-> FALSE, this |-> r.this]

\* copy_2d with dest.z clamped to the last plane.
copy_2d_ClampZ(this, source, dest) ==
    LET z == IF dest.z < this.depth THEN dest.z
             ELSE IF this.depth > 0 THEN this.depth - 1 ELSE 0
        d == Coord3D_new(dest.x, dest.y, z)
    IN  IF ~Copy2dAsserts(this, source, d) THEN [ok |-> FALSE, this |-> this]
        ELSE Copy2dLoop(this, source, d, 0)

copy_2d(this, source, dest) ==
    IF ~Copy2dAsserts(this, source, dest) THEN [ok |-> FALSE, this |-> this]
    ELSE Copy2dLoop(this, source, dest, 0)

----------------------------------------------------------------------------
(* Iter and IterMut *)

\* The tail of next(): the coordinate the iterator is left at.
Advance2D(this, coord) ==
    LET x == coord.x + 1 IN
    IF x >= this.width THEN Coord2D_new(0, coord.y + 1)
    ELSE Coord2D_new(x, coord.y)

\* The tail of next() without the wrap of y.
Advance3D_NoYWrap(this, coord) ==
    LET x == coord.x + 1 IN
    IF x >= this.width THEN Coord3D_new(0, coord.y + 1, coord.z)
    ELSE Coord3D_new(x, coord.y, coord.z)

Advance3D(this, coord) ==
    LET x  == coord.x + 1
        c1 == IF x >= this.width THEN Coord3D_new(0, coord.y + 1, coord.z)
              ELSE Coord3D_new(x, coord.y, coord.z)
    IN  IF c1.y >= this.height THEN Coord3D_new(c1.x, 0, c1.z + 1)
        ELSE c1

\* Iter::next (2D): ok = it did not panic, some = it returned Some(item)
iter_next_2d(this, coord) ==
    IF coord_is_valid_2d(this, coord)
    THEN LET r == at_2d(this, coord) IN
         [ok |-> r.ok, some |-> TRUE, coord |-> coord, index |-> r.index,
          val |-> r.val, next |-> Advance2D(this, coord)]
    ELSE [ok |-> TRUE, some |-> FALSE, coord |-> coord, index |-> 0,
          val |-> 0, next |-> Advance2D(this, coord)]

\* IterMut::next (2D): index names the cell of the yielded &mut T
iter_mut_next_2d(this, coord) ==
    IF coord_is_valid_2d(this, coord)
    THEN LET r == at_mut_2d(this, coord) IN
         [ok |-> r.ok, some |-> TRUE, coord |-> coord, index |-> r.index,
          val |-> 0, next |-> Advance2D(this, coord)]
    ELSE [ok |-> TRUE, some |-> FALSE, coord |-> coord, index |-> 0,
          val |-> 0, next |-> Advance2D(this, coord)]

iter_next_3d(this, coord) ==
    IF coord_is_valid_3d(this, coord)
    THEN LET r == at_3d(this, coord) IN
         [ok |-> r.ok, some |-> TRUE, coord |-> coord, index |-> r.index,
          val |-> r.val, next |-> Advance3D(this, coord)]
    ELSE [ok |-> TRUE, some |-> FALSE, coord |-> coord, index |-> 0,
          val |-> 0, next |-> Advance3D(this, coord)]

iter_mut_next_3d(this, coord) ==
    IF coord_is_valid_3d(this, coord)
    THEN LET r == at_mut_3d(this, coord) IN
         [ok |-> r.ok, some |-> TRUE, coord |-> coord, index |-> r.index,
          val |-> 0, next |-> Advance3D(this, coord)]
    ELSE [ok |-> TRUE, some |-> FALSE, coord |-> coord, index |-> 0,
          val |-> 0, next |-> Advance3D(this, coord)]

\* iter() / iter_mut(): a fresh traversal
\* (out: the items yielded so far; nones: how often next() returned None;
\* first: how many items had been yielded when it first returned None)
iter_2d(mut) ==
    [mut |-> mut, coord |-> Coord2D_new(0, 0), out |-> <<>>, nones |-> 0,
     first |-> 0]

iter_3d(mut) ==
    [mut |-> mut, coord |-> Coord3D_new(0, 0, 0), out |-> <<>>, nones |-> 0,
     first |-> 0]

\* The iterator after a call of next() that returned r.
Stepped(iter, r) ==
    IF r.some
    THEN [iter EXCEPT !.coord = r.next,
                      !.out = Append(@, [coord |-> r.coord, index |-> r.index,
                                         val |-> r.val])]
    ELSE [iter EXCEPT !.coord = r.next,
                      !.nones = @ + 1,
                      !.first = IF iter.nones = 0 THEN Len(iter.out) ELSE @]

\* The marker the client writes through the k-th reference IterMut yields.
Marker(k) == 0 - (k + 1)

----------------------------------------------------------------------------
(* The client *)

\* The cells after the client populated them: every cell its own value.
Populated(n, tag) == [i \in 1..n |-> tag + i]

\* The arrays the client owns: as new_with(.., 0) built them, or populated.
Arrays2D ==
    UNION {{new_with_2d(w, h, 0),
            [new_with_2d(w, h, 0) EXCEPT !.data = Populated(w * h, 10)]}
           : w \in Dim, h \in Dim}

Arrays3D ==
    UNION {{new_with_3d(w[1], w[2], w[3], 0),
            [new_with_3d(w[1], w[2], w[3], 0)
                EXCEPT !.data = Populated(w[1] * w[2] * w[3], 10)]}
           : w \in Dim \X Dim \X Dim}

\* The arrays passed as `source` to copy and copy_2d: populated, with no value
\* of the receiver.
Sources ==
    {[new_with_2d(w, h, 0) EXCEPT !.data = Populated(w * h, 100)]
     : w \in Dim, h \in Dim}

\* The second arrays of the dimensions of `this`: fresh, or populated.
Targets(this) ==
    {new_with_2d(this.width, this.height, f) : f \in Val}
    \cup {[new_with_2d(this.width, this.height, 0)
              EXCEPT !.data = Populated(this.width * this.height, 200)]}

NoArray2D == new_with_2d(0, 0, 0)

NoArray3D == new_with_3d(0, 0, 0, 0)

NoIter == iter_2d(FALSE)

Call(op, coord, width, height, value, source, ok, val) ==
    [op |-> op, coord |-> coord, width |-> width, height |-> height,
     value |-> value, source |-> source, ok |-> ok, val |-> val]

NoCall == Call("none", Coord2D_new(0, 0), 0, 0, 0, NoArray2D, TRUE, 0)

Init ==
    /\ kind \in {"Array2D", "Array3D"}
    /\ IF kind = "Array2D"
       THEN a \in Arrays2D /\ v = NoArray3D
       ELSE a = NoArray2D /\ v \in Arrays3D
    /\ ret = NoArray2D
    /\ a2 = NoArray2D
    /\ it = NoIter
    /\ last = NoCall
    /\ orig = [a |-> a, v |-> v, a2 |-> a2]
    /\ pc = "ready"

Ready2D == pc = "ready" /\ kind = "Array2D"

Ready3D == pc = "ready" /\ kind = "Array3D"

Set2D(coord, value) ==
    /\ Ready2D
    /\ LET r == set_2d(a, coord, value) IN
       /\ a' = r.this
       /\ last' = Call("set", coord, 0, 0, value, NoArray2D, r.ok, 0)
    /\ pc' = "done"
    /\ UNCHANGED <<kind, v, ret, a2, it, orig>>

At2D(coord) ==
    /\ Ready2D
    /\ LET r == at_2d(a, coord) IN
       last' = Call("at", coord, 0, 0, 0, NoArray2D, r.ok, r.val)
    /\ pc' = "done"
    /\ UNCHANGED <<kind, a, v, ret, a2, it, orig>>

\* *at_mut(coord) = value
AtMut2D(coord, value) ==
    /\ Ready2D
    /\ LET r == at_mut_2d(a, coord) IN
       /\ a' = IF r.ok THEN WriteRef(a, r.index, value) ELSE a
       /\ last' = Call("at_mut", coord, 0, 0, value, NoArray2D, r.ok, 0)
    /\ pc' = "done"
    /\ UNCHANGED <<kind, v, ret, a2, it, orig>>

\* data_mut()[index] = value
DataMut2D(index, value) ==
    /\ Ready2D
    /\ LET r == data_mut_write(a, index, value) IN
       /\ a' = r.this
       /\ last' = Call("data_mut", Coord2D_new(index, 0), 0, 0, value, NoArray2D, r.ok, 0)
    /\ pc' = "done"
    /\ UNCHANGED <<kind, v, ret, a2, it, orig>>

Sub2D(coord, width, height) ==
    /\ Ready2D
    /\ LET r == sub(a, coord, width, height) IN
       /\ ret' = r.ret
       /\ last' = Call("sub", coord, width, height, 0, NoArray2D, r.ok, 0)
       /\ pc' = IF r.ok THEN "subbed" ELSE "done"
    /\ UNCHANGED <<kind, a, v, a2, it, orig>>

\* target.copy(&ret, coord), coord being where ret was taken from
CopyBack(target) ==
    /\ pc = "subbed"
    /\ LET r == copy(target, ret, last.coord) IN
       /\ a2' = r.this
       /\ last' = Call("copy_back", last.coord, last.width, last.height, 0, ret, r.ok, 0)
    /\ orig' = [orig EXCEPT !.a2 = target]
    /\ pc' = "done"
    /\ UNCHANGED <<kind, a, v, ret, it>>

Copy2D(source, dest) ==
    /\ Ready2D
    /\ LET r == copy(a, source, dest) IN
       /\ a' = r.this
       /\ last' = Call("copy", dest, 0, 0, 0, source, r.ok, 0)
    /\ pc' = "done"
    /\ UNCHANGED <<kind, v, ret, a2, it, orig>>

Set3D(coord, value) ==
    /\ Ready3D
    /\ LET r == set_3d(v, coord, value) IN
       /\ v' = r.this
       /\ last' = Call("set", coord, 0, 0, value, NoArray2D, r.ok, 0)
    /\ pc' = "done"
    /\ UNCHANGED <<kind, a, ret, a2, it, orig>>

At3D(coord) ==
    /\ Ready3D
    /\ LET r == at_3d(v, coord) IN
       last' = Call("at", coord, 0, 0, 0, NoArray2D, r.ok, r.val)
    /\ pc' = "done"
    /\ UNCHANGED <<kind, a, v, ret, a2, it, orig>>

AtMut3D(coord, value) ==
    /\ Ready3D
    /\ LET r == at_mut_3d(v, coord) IN
       /\ v' = IF r.ok THEN WriteRef(v, r.index, value) ELSE v
       /\ last' = Call("at_mut", coord, 0, 0, value, NoArray2D, r.ok, 0)
    /\ pc' = "done"
    /\ UNCHANGED <<kind, a, ret, a2, it, orig>>

DataMut3D(index, value) ==
    /\ Ready3D
    /\ LET r == data_mut_write(v, index, value) IN
       /\ v' = r.this
       /\ last' = Call("data_mut", Coord3D_new(index, 0, 0), 0, 0, value, NoArray2D, r.ok, 0)
    /\ pc' = "done"
    /\ UNCHANGED <<kind, a, ret, a2, it, orig>>

Copy2d3D(source, dest) ==
    /\ Ready3D
    /\ LET r == copy_2d(v, source, dest) IN
       /\ v' = r.this
       /\ last' = Call("copy_2d", dest, 0, 0, 0, source, r.ok, 0)
    /\ pc' = "done"
    /\ UNCHANGED <<kind, a, ret, a2, it, orig>>

Iter2D(mut) ==
    /\ Ready2D
    /\ it' = iter_2d(mut)
    /\ last' = Call(IF mut THEN "iter_mut" ELSE "iter", Coord2D_new(0, 0), 0, 0, 0,
                    NoArray2D, TRUE, 0)
    /\ pc' = "iter"
    /\ UNCHANGED <<kind, a, v, ret, a2, orig>>

Iter3D(mut) ==
    /\ Ready3D
    /\ it' = iter_3d(mut)
    /\ last' = Call(IF mut THEN "iter_mut" ELSE "iter", Coord3D_new(0, 0, 0), 0, 0, 0,
                    NoArray2D, TRUE, 0)
    /\ pc' = "iter"
    /\ UNCHANGED <<kind, a, v, ret, a2, orig>>

\* next() may be called until it has returned None 1 + MaxNones times
Iterating(k, mut) ==
    /\ pc = "iter"
    /\ kind = k
    /\ it.mut = mut
    /\ it.nones <= MaxNones

IterNext2D ==
    /\ Iterating("Array2D", FALSE)
    /\ LET r == iter_next_2d(a, it.coord) IN
       /\ it' = IF r.ok THEN Stepped(it, r) ELSE it
       /\ last' = Call("next", it.coord, 0, 0, 0, NoArray2D, r.ok, r.val)
       /\ pc' = IF r.ok THEN "iter" ELSE "done"
    /\ UNCHANGED <<kind, a, v, ret, a2, orig>>

\* next(), and the client's write of a marker through the reference it got
IterMutNext2D ==
    /\ Iterating("Array2D", TRUE)
    /\ LET r == iter_mut_next_2d(a, it.coord) IN
       /\ it' = IF r.ok THEN Stepped(it, r) ELSE it
       /\ a' = IF r.ok /\ r.some THEN WriteRef(a, r.index, Marker(Len(it.out))) ELSE a
       /\ last' = Call("next_mut", it.coord, 0, 0, 0, NoArray2D, r.ok, 0)
       /\ pc' = IF r.ok THEN "iter" ELSE "done"
    /\ UNCHANGED <<kind, v, ret, a2, orig>>

IterNext3D ==
    /\ Iterating("Array3D", FALSE)
    /\ LET r == iter_next_3d(v, it.coord) IN
       /\ it' = IF r.ok THEN Stepped(it, r) ELSE it
       /\ last' = Call("next", it.coord, 0, 0, 0, NoArray2D, r.ok, r.val)
       /\ pc' = IF r.ok THEN "iter" ELSE "done"
    /\ UNCHANGED <<kind, a, v, ret, a2, orig>>

IterMutNext3D ==
    /\ Iterating("Array3D", TRUE)
    /\ LET r == iter_mut_next_3d(v, it.coord) IN
       /\ it' = IF r.ok THEN Stepped(it, r) ELSE it
       /\ v' = IF r.ok /\ r.some THEN WriteRef(v, r.index, Marker(Len(it.out))) ELSE v
       /\ last' = Call("next_mut", it.coord, 0, 0, 0, NoArray2D, r.ok, 0)
       /\ pc' = IF r.ok THEN "iter" ELSE "done"
    /\ UNCHANGED <<kind, a, ret, a2, orig>>

\* The indices the client passes to data_mut()[index]: every cell of the
\* largest array, and one past it.
Indices2D == 0..(MaxDim * MaxDim)

Indices3D == 0..(MaxDim * MaxDim * MaxDim)

Next ==
    \/ \E coord \in Coord2D, value \in Val : Set2D(coord, value)
    \/ \E coord \in Coord2D : At2D(coord)
    \/ \E coord \in Coord2D, value \in Val : AtMut2D(coord, value)
    \/ \E index \in Indices2D, value \in Val : DataMut2D(index, value)
    \/ \E coord \in Coord2D, width \in Dim, height \in Dim : Sub2D(coord, width, height)
    \/ \E target \in Targets(a) : CopyBack(target)
    \/ \E source \in Sources, dest \in Coord2D : Copy2D(source, dest)
    \/ \E coord \in Coord3D, value \in Val : Set3D(coord, value)
    \/ \E coord \in Coord3D : At3D(coord)
    \/ \E coord \in Coord3D, value \in Val : AtMut3D(coord, value)
    \/ \E index \in Indices3D, value \in Val : DataMut3D(index, value)
    \/ \E source \in Sources, dest \in Coord3D : Copy2d3D(source, dest)
    \/ \E mut \in BOOLEAN : Iter2D(mut)
    \/ \E mut \in BOOLEAN : Iter3D(mut)
    \/ IterNext2D
    \/ IterMutNext2D
    \/ IterNext3D
    \/ IterMutNext3D

Spec == Init /\ [][Next]_vars

----------------------------------------------------------------------------
(* What the claims speak of, stated on the coordinates themselves *)

\* The row-major position of a cell in the backing sequence (1-based).
Pos2(width, x, y) == x + width * y + 1

Pos3(width, height, x, y, z) == x + width * y + width * height * z + 1

Valid2(this, c) == c.x < this.width /\ c.y < this.height

Valid3(this, c) == c.x < this.width /\ c.y < this.height /\ c.z < this.depth

\* The region (coord, width, height) lies inside `this`.
Inside(this, coord, width, height) ==
    /\ coord.x + width <= this.width
    /\ coord.y + height <= this.height

\* Cell (x, y) lies in the region (coord, width, height).
InRegion(x, y, coord, width, height) ==
    /\ coord.x <= x /\ x < coord.x + width
    /\ coord.y <= y /\ y < coord.y + height

SameDims2(p, q) == p.width = q.width /\ p.height = q.height

SameDims3(p, q) == p.width = q.width /\ p.height = q.height /\ p.depth = q.depth

LengthOk2(this) == Len(this.data) = this.width * this.height

LengthOk3(this) == Len(this.data) = this.width * this.height * this.depth

\* C1: sub fails whenever the requested region exceeds the bounds of the
\* array it is taken from (coord.x + width > self.width or
\* coord.y + height > self.height), also when coord is valid and both
\* extents are positive.
C1_SubFailsOutsideBounds ==
    (last.op = "sub" /\ ~Inside(a, last.coord, last.width, last.height))
        => ~last.ok

\* C2: copy and copy_2d fail whenever the destination footprint exceeds the
\* receiver's width or height, and then no cell of the receiver has changed.
C2_CopyFailsBeforeWriting ==
    /\ (last.op = "copy"
            /\ ~Inside(orig.a, last.coord, last.source.width, last.source.height))
        => (~last.ok /\ a = orig.a)
    /\ (last.op = "copy_2d"
            /\ ~Inside(orig.v, last.coord, last.source.width, last.source.height))
        => (~last.ok /\ v = orig.v)

\* A copy whose footprint leaves the receiver on the right only, and whose
\* row would still fit the backing storage.
C2_Witness ==
    /\ last.op = "copy"
    /\ ~last.ok
    /\ last.source.width > 0 /\ last.source.height > 0
    /\ last.coord.x < a.width
    /\ last.coord.x + last.source.width > a.width
    /\ last.coord.y + last.source.height < a.height

\* C3: with S = A.sub(coord, w, h) of a region inside A (w, h > 0), the call
\* A2.copy(S, coord) on an array A2 of A's dimensions succeeds, makes A2 equal
\* to A on every cell of the region, leaves every other cell of A2 as it was,
\* and A is unchanged.
C3_SubCopyRoundTrip ==
    (/\ last.op = "copy_back"
     /\ last.width > 0 /\ last.height > 0
     /\ Inside(orig.a, last.coord, last.width, last.height)
     /\ SameDims2(orig.a2, orig.a))
        => /\ last.ok
           /\ a = orig.a
           /\ SameDims2(a2, orig.a2)
           /\ Len(a2.data) = Len(orig.a2.data)
           /\ \A x \in 0..(a.width - 1), y \in 0..(a.height - 1) :
                a2.data[Pos2(a.width, x, y)] =
                    IF InRegion(x, y, last.coord, last.width, last.height)
                    THEN orig.a.data[Pos2(a.width, x, y)]
                    ELSE orig.a2.data[Pos2(a.width, x, y)]

\* A round trip of a region of two rows that is narrower than the array and
\* does not start at its origin.
C3_Witness ==
    /\ last.op = "copy_back"
    /\ last.ok
    /\ last.height > 1
    /\ last.coord.x > 0
    /\ Inside(orig.a, last.coord, last.width, last.height)
    /\ a2 # orig.a2
    /\ a2 # a

\* C4: after copy_2d(source, dest) with dest.z < depth and the footprint
\* inside width and height, the cell (dest.x + i, dest.y + j, dest.z) holds
\* source cell (i, j), and every other cell holds what it held before.
C4_Copy2dPlaneIsolation ==
    (/\ last.op = "copy_2d"
     /\ last.coord.z < orig.v.depth
     /\ Inside(orig.v, last.coord, last.source.width, last.source.height))
        => /\ last.ok
           /\ SameDims3(v, orig.v)
           /\ Len(v.data) = Len(orig.v.data)
           /\ \A x \in 0..(v.width - 1), y \in 0..(v.height - 1),
                 z \in 0..(v.depth - 1) :
                v.data[Pos3(v.width, v.height, x, y, z)] =
                    IF /\ z = last.coord.z
                       /\ InRegion(x, y, last.coord, last.source.width,
                                   last.source.height)
                    THEN last.source.data[Pos2(last.source.width,
                                               x - last.coord.x, y - last.coord.y)]
                    ELSE orig.v.data[Pos3(v.width, v.height, x, y, z)]

\* A copy_2d of a source of more than one row onto a plane other than the
\* first, with cells of that plane left outside the footprint.
C4_Witness ==
    /\ last.op = "copy_2d"
    /\ last.ok
    /\ last.coord.z > 0
    /\ last.source.height > 1
    /\ last.source.width > 0
    /\ last.source.width < v.width
    /\ v # orig.v

\* C5: after set(c, value) with c valid, at(c) returns value, at(c') returns
\* what it returned before for every other valid c', and the one backing cell
\* that changed is the one at index x + width*y (+ width*height*z).
C5_ReadAfterWrite ==
    /\ (last.op = "set" /\ kind = "Array2D" /\ Valid2(orig.a, last.coord))
        => /\ last.ok
           /\ at_2d(a, last.coord).ok
           /\ at_2d(a, last.coord).val = last.value
           /\ \A c \in Coord2D :
                (Valid2(orig.a, c) /\ c # last.coord)
                    => (at_2d(a, c).ok /\ at_2d(a, c).val = at_2d(orig.a, c).val)
           /\ a = [orig.a EXCEPT
                     !.data[Pos2(orig.a.width, last.coord.x, last.coord.y)] =
                         last.value]
    /\ (last.op = "set" /\ kind = "Array3D" /\ Valid3(orig.v, last.coord))
        => /\ last.ok
           /\ at_3d(v, last.coord).ok
           /\ at_3d(v, last.coord).val = last.value
           /\ \A c \in Coord3D :
                (Valid3(orig.v, c) /\ c # last.coord)
                    => (at_3d(v, c).ok /\ at_3d(v, c).val = at_3d(orig.v, c).val)
           /\ v = [orig.v EXCEPT
                     !.data[Pos3(orig.v.width, orig.v.height, last.coord.x,
                                 last.coord.y, last.coord.z)] = last.value]

\* A set of a cell that is neither in the first row nor in the first plane.
C5_Witness ==
    /\ last.op = "set"
    /\ kind = "Array3D"
    /\ last.ok
    /\ last.coord.y > 0 /\ last.coord.z > 0
    /\ v # orig.v

\* C6: at, at_mut and set fail for a coordinate with a component greater
\* than or equal to the dimension, and the array is then unchanged: the
\* access does not reach a cell of another row or plane.
C6_BoundsEnforced ==
    /\ (last.op \in {"at", "at_mut", "set"} /\ kind = "Array2D"
            /\ ~Valid2(orig.a, last.coord))
        => (~last.ok /\ a = orig.a)
    /\ (last.op \in {"at", "at_mut", "set"} /\ kind = "Array3D"
            /\ ~Valid3(orig.v, last.coord))
        => (~last.ok /\ v = orig.v)

\* A set with x past the end of a row whose index x + width*y is a cell of
\* the next row.
C6_Witness ==
    /\ last.op = "set"
    /\ kind = "Array2D"
    /\ ~last.ok
    /\ last.coord.x >= a.width
    /\ last.coord.y < a.height
    /\ last.coord.x + a.width * last.coord.y < Len(a.data)

\* The coordinate whose linear index is k.
Nth2(this, k) == Coord2D_new(k % this.width, k \div this.width)

Nth3(this, k) ==
    Coord3D_new(k % this.width,
                (k \div this.width) % this.height,
                k \div (this.width * this.height))

\* The items a traversal yielded before its first None (all of them so far,
\* when it has not returned None yet).
Yielded == IF it.nones > 0 THEN SubSeq(it.out, 1, it.first) ELSE it.out

\* C7: a fresh iter() or iter_mut() traversal, driven by next() until the
\* first None, yields width*height (*depth) pairs, the k-th of them (from 0)
\* the coordinate whose linear index is k with the cell data()[k]; so every
\* valid coordinate once, x fastest, then y, then z, and None at once when a
\* dimension is 0.
C7_IterationOrder ==
    /\ last.op \in {"next", "next_mut"} => last.ok
    /\ kind = "Array2D" =>
        /\ Len(Yielded) <= a.width * a.height
        /\ it.nones > 0 => Len(Yielded) = a.width * a.height
        /\ \A k \in 1..Len(Yielded) :
            /\ Yielded[k].coord = Nth2(a, k - 1)
            /\ Yielded[k].index = k - 1
            /\ ~it.mut => Yielded[k].val = a.data[k]
    /\ kind = "Array3D" =>
        /\ Len(Yielded) <= v.width * v.height * v.depth
        /\ it.nones > 0 => Len(Yielded) = v.width * v.height * v.depth
        /\ \A k \in 1..Len(Yielded) :
            /\ Yielded[k].coord = Nth3(v, k - 1)
            /\ Yielded[k].index = k - 1
            /\ ~it.mut => Yielded[k].val = v.data[k]

\* A traversal of an Array3D with more than one column, row and plane that
\* has returned its first None.
C7_Witness ==
    /\ kind = "Array3D"
    /\ pc = "iter"
    /\ ~it.mut
    /\ it.nones > 0
    /\ Len(it.out) > 0
    /\ v.width > 1 /\ v.height > 1 /\ v.depth > 1
    /\ v.data[1] # v.data[2]

\* C8: within one iter_mut() traversal the backing indices of the yielded
\* references are pairwise distinct and below the backing length, so after a
\* distinct marker was written through each of them, at(coord) returns, for
\* every valid coordinate, the marker written for that coordinate.
C8_IterMutNoAliasing ==
    it.mut =>
        /\ last.op = "next_mut" => last.ok
        /\ \A j \in 1..Len(it.out), k \in 1..Len(it.out) :
            j # k => it.out[j].index # it.out[k].index
        /\ kind = "Array2D" =>
            /\ \A k \in 1..Len(it.out) :
                /\ it.out[k].index < Len(a.data)
                /\ at_2d(a, it.out[k].coord).ok
                /\ at_2d(a, it.out[k].coord).val = Marker(k - 1)
            /\ it.nones > 0 =>
                \A c \in Coord2D : Valid2(a, c) =>
                    \E k \in 1..Len(it.out) : it.out[k].coord = c
        /\ kind = "Array3D" =>
            /\ \A k \in 1..Len(it.out) :
                /\ it.out[k].index < Len(v.data)
                /\ at_3d(v, it.out[k].coord).ok
                /\ at_3d(v, it.out[k].coord).val = Marker(k - 1)
            /\ it.nones > 0 =>
                \A c \in Coord3D : Valid3(v, c) =>
                    \E k \in 1..Len(it.out) : it.out[k].coord = c

\* An iter_mut() traversal of an Array3D with more than one column, row and
\* plane, all its markers written.
C8_Witness ==
    /\ kind = "Array3D"
    /\ pc = "iter"
    /\ it.mut
    /\ it.nones > 0
    /\ v.width > 1 /\ v.height > 1 /\ v.depth > 1
    /\ Len(it.out) = Len(v.data)
    /\ v # orig.v

\* C9: in every state the backing length is width*height (*depth), of the
\* arrays the calls act on and of the array sub returns, and no call changes
\* the width, height or depth of an array.
C9_LengthInvariant ==
    /\ LengthOk2(a) /\ LengthOk3(v) /\ LengthOk2(ret) /\ LengthOk2(a2)
    /\ SameDims2(a, orig.a)
    /\ SameDims3(v, orig.v)
    /\ SameDims2(a2, orig.a2)
    /\ last.op = "sub" /\ last.ok =>
        ret.width = last.width /\ ret.height = last.height

\* A sub that returned an array of more than one row and column.
C9_Witness ==
    /\ last.op = "sub"
    /\ last.ok
    /\ ret.width > 1 /\ ret.height > 1
    /\ Len(ret.data) > 1

\* C10: copy_2d(source, dest) with dest.z >= depth modifies no cell of the
\* receiver; with a source of width > 0 and height > 0 whose footprint fits
\* width and height, it aborts.
C10_Copy2dBadPlane ==
    (last.op = "copy_2d" /\ last.coord.z >= orig.v.depth)
        => /\ v = orig.v
           /\ (/\ last.source.width > 0
               /\ last.source.height > 0
               /\ Inside(orig.v, last.coord, last.source.width, last.source.height))
                => ~last.ok

\* A copy_2d onto the plane one past the last of a receiver with cells, the
\* footprint of the source inside width and height.
C10_Witness ==
    /\ last.op = "copy_2d"
    /\ last.coord.z = v.depth
    /\ v.depth > 0
    /\ last.source.width > 0 /\ last.source.height > 1
    /\ Inside(v, last.coord, last.source.width, last.source.height)
    /\ ~last.ok

=============================================================================
